---------------------------- MODULE Spec2Model ----------------------------
(***************************************************************************)
(* Printing & Custom Mugs API (src/main.py, src/schemas.py): the pricing   *)
(* engine (compute_price and the per-product price functions), the session *)
(* gate (auth_user) and the checkout orchestrator (place_order) with the   *)
(* order read endpoints.                                                   *)
(*                                                                         *)
(* All prices in the source are integer-valued floats (3 .. 1040.0), so    *)
(* they are modelled as integers.  A JSON option value is modelled as a    *)
(* tagged value [t, v]: Python's int() is applied to it by IntOf.          *)
(***************************************************************************)
EXTENDS Integers, Sequences, FiniteSets, TLC

\* ------------------------------------------------------------------------
\* Bounds of the model
\* ------------------------------------------------------------------------
MaxLines == 2      \* longest multi-line cart priced
MaxUsers == 2      \* registered users
MaxSessions == 3   \* sessions created by register/login
MaxOrders == 2     \* orders inserted by checkouts
MaxWorkers == 2    \* checkout requests in flight at once

\* ------------------------------------------------------------------------
\* Program constants (src/main.py:167-169)
\* ------------------------------------------------------------------------
PLATFORM_FEE == 10
DELIVERY_THRESHOLD == 300
DELIVERY_FEE == 35

\* ------------------------------------------------------------------------
\* Values
\* ------------------------------------------------------------------------
\* Python's None for a string-valued option or field.
None == "None"

\* Tagged JSON values found in the options mapping.
Absent == [t |-> "absent", v |-> 0]      \* key not in the dict
Null == [t |-> "null", v |-> 0]          \* key present, value null
Num(n) == [t |-> "int", v |-> n]         \* an integer
Str(n) == [t |-> "str", v |-> n]         \* the decimal string of n, e.g. "50"
Bad == [t |-> "bad", v |-> 0]            \* a string that is not a number

\* Results of a function that returns a value or raises.
Ok(v) == [status |-> 200, v |-> v, detail |-> ""]
Err(s, d) == [status |-> s, v |-> 0, detail |-> d]

\* int(x): the integer for an int or a numeric string, TypeError for None,
\* ValueError for a non-numeric string; an uncaught exception is a 500.
IntOf(x) ==
  CASE x.t = "int" -> Ok(x.v)
    [] x.t = "str" -> Ok(x.v)
    [] x.t = "bad" -> Err(500, "Internal Server Error")
    [] OTHER -> Err(500, "Internal Server Error")

\* opts.get(key, default) for a numeric option: the default replaces only a
\* missing key, not a null value.
GetDefault(x, d) == IF x.t = "absent" THEN Num(d) ELSE x

\* ------------------------------------------------------------------------
\* Pricing tables (src/main.py:172-251)
\* ------------------------------------------------------------------------
prices ==
  [c \in {"bw", "colour"}, s \in {"A4", "A3"}, g \in {80, 100, 130} |->
     CASE <<c, s, g>> = <<"bw", "A4", 80>> -> 3
       [] <<c, s, g>> = <<"bw", "A4", 100>> -> 4
       [] <<c, s, g>> = <<"bw", "A4", 130>> -> 5
       [] <<c, s, g>> = <<"bw", "A3", 80>> -> 8
       [] <<c, s, g>> = <<"bw", "A3", 100>> -> 10
       [] <<c, s, g>> = <<"bw", "A3", 130>> -> 12
       [] <<c, s, g>> = <<"colour", "A4", 80>> -> 10
       [] <<c, s, g>> = <<"colour", "A4", 100>> -> 12
       [] <<c, s, g>> = <<"colour", "A4", 130>> -> 15
       [] <<c, s, g>> = <<"colour", "A3", 80>> -> 25
       [] <<c, s, g>> = <<"colour", "A3", 100>> -> 30
       [] <<c, s, g>> = <<"colour", "A3", 130>> -> 35]

price_document_printing(opts) ==
  LET gsm == IntOf(opts.gsm)
      pages == IntOf(GetDefault(opts.pages, 1))
  IN  IF gsm.status # 200 THEN gsm
      ELSE IF pages.status # 200 THEN pages
      ELSE IF <<opts.color, opts.size, gsm.v>> \notin DOMAIN prices
           THEN Err(400, "Invalid options")
      ELSE Ok(prices[opts.color, opts.size, gsm.v] * pages.v)

price_visiting_cards(opts) ==
  LET qty == IntOf(opts.quantity)
  IN  IF qty.status # 200 THEN qty
      ELSE IF opts.paper = "economy_250_matte"
           THEN Ok(IF qty.v = 50 THEN 150 ELSE 250)
      ELSE IF opts.paper \in {"premium_300_matte", "premium_300_gloss"}
           THEN Ok(IF qty.v = 50 THEN 250 ELSE 400)
      ELSE Err(400, "Invalid options")

price_letterheads(opts) ==
  LET gsm == IntOf(opts.gsm)
      qty == IntOf(opts.quantity)
  IN  IF gsm.status # 200 THEN gsm
      ELSE IF qty.status # 200 THEN qty
      ELSE IF gsm.v = 100 THEN Ok(IF qty.v = 100 THEN 200 ELSE 350)
      ELSE IF gsm.v = 130 THEN Ok(IF qty.v = 100 THEN 260 ELSE 450)
      ELSE Err(400, "Invalid options")

price_envelopes(opts) ==
  LET qty == IntOf(opts.quantity)
  IN  IF qty.status # 200 THEN qty
      ELSE IF opts.type = "standard_80"
           THEN Ok(IF qty.v = 100 THEN 200 ELSE 350)
      ELSE IF opts.type = "premium_100"
           THEN Ok(IF qty.v = 100 THEN 260 ELSE 450)
      ELSE Err(400, "Invalid options")

price_flyers(opts) ==
  LET qty == IntOf(opts.quantity)
  IN  IF qty.status # 200 THEN qty
      ELSE IF opts.size = "A5" THEN Ok(IF qty.v = 50 THEN 250 ELSE 400)
      ELSE IF opts.size = "A4" THEN Ok(IF qty.v = 50 THEN 350 ELSE 600)
      ELSE Err(400, "Invalid options")

price_posters(opts) ==
  LET qty == IntOf(opts.quantity)
  IN  IF qty.status # 200 THEN qty
      ELSE Ok(IF qty.v = 1 THEN 80 ELSE 700)

\* Variant of price_mugs that charges 299 per mug instead of the tier price.
price_mugs_per_piece(opts) ==
  LET qty == IntOf(opts.quantity)
  IN  IF qty.status # 200 THEN qty
      ELSE IF qty.v \in {1, 2, 4} THEN Ok(299 * qty.v)
      ELSE Err(400, "Invalid options")

price_mugs(opts) ==
  LET qty == IntOf(opts.quantity)
  IN  IF qty.status # 200 THEN qty
      ELSE IF qty.v = 1 THEN Ok(299)
      ELSE IF qty.v = 2 THEN Ok(550)
      ELSE IF qty.v = 4 THEN Ok(1040)
      ELSE Err(400, "Invalid options")

\* ------------------------------------------------------------------------
\* Add-on pricer (src/main.py:254-272, src/schemas.py:53-55)
\* ------------------------------------------------------------------------
\* it.addons is None (given = FALSE) or an AddOns object whose two fields
\* are None or one of the schema's literals.
NoAddOns == [given |-> FALSE, spiral_binding |-> None, lamination |-> None]
AddOns(s, l) == [given |-> TRUE, spiral_binding |-> s, lamination |-> l]

\* Variant of price_addons that charges spiral binding on every product.
price_addons_any_product(addons, base_product, opts) ==
  IF ~addons.given THEN 0
  ELSE
    LET spiral == addons.spiral_binding
        lam == addons.lamination
        t1 == IF spiral = "up_to_80" THEN 30
              ELSE IF spiral = "81_150" THEN 40 ELSE 0
        t2 == IF lam = "ID" THEN 15
              ELSE IF lam = "A4" THEN 40
              ELSE IF lam = "A3" THEN 60 ELSE 0
    IN  t1 + t2

price_addons(addons, base_product, opts) ==
  IF ~addons.given THEN 0
  ELSE
    LET spiral == addons.spiral_binding
        lam == addons.lamination
        t1 == IF spiral # None /\ base_product = "document_printing"
              THEN (IF spiral = "up_to_80" THEN 30
                    ELSE IF spiral = "81_150" THEN 40 ELSE 0)
              ELSE 0
        t2 == IF lam # None
              THEN (IF lam = "ID" THEN 15
                    ELSE IF lam = "A4" THEN 40
                    ELSE IF lam = "A3" THEN 60 ELSE 0)
              ELSE 0
    IN  t1 + t2

\* ------------------------------------------------------------------------
\* Pricing engine (src/main.py:275-326)
\* ------------------------------------------------------------------------
Products ==
  {"document_printing", "visiting_cards", "letterheads", "envelopes",
   "flyers", "posters", "custom_mug"}

\* Variant of unit_price_of that takes a unit_price the client sent.
unit_price_of_trusting(it) ==
  IF it.unit_price.t = "int" THEN Ok(it.unit_price.v)
  ELSE
    CASE it.product = "document_printing" ->
           price_document_printing(it.options)
      [] it.product = "visiting_cards" -> price_visiting_cards(it.options)
      [] it.product = "letterheads" -> price_letterheads(it.options)
      [] it.product = "envelopes" -> price_envelopes(it.options)
      [] it.product = "flyers" -> price_flyers(it.options)
      [] it.product = "posters" -> price_posters(it.options)
      [] it.product = "custom_mug" -> price_mugs(it.options)
      [] OTHER -> Err(400, "Unknown product")

\* Lines 285-302: dispatch on the product tag.
unit_price_of(it) ==
  CASE it.product = "document_printing" -> price_document_printing(it.options)
    [] it.product = "visiting_cards" -> price_visiting_cards(it.options)
    [] it.product = "letterheads" -> price_letterheads(it.options)
    [] it.product = "envelopes" -> price_envelopes(it.options)
    [] it.product = "flyers" -> price_flyers(it.options)
    [] it.product = "posters" -> price_posters(it.options)
    [] it.product = "custom_mug" -> price_mugs(it.options)
    [] OTHER -> Err(400, "Unknown product")

\* Lines 287-290: the line raises the office-card flag.
is_office_line(it) ==
  it.product = "visiting_cards" /\ it.options.card_type = "office"

\* Lines 303-313: the priced line appended to line_items.
line_item(it, unit) ==
  LET qty == it.quantity
      addon_cost == price_addons(it.addons, it.product, it.options)
  IN  [product |-> it.product,
       options |-> it.options,
       quantity |-> qty,
       unit_price |-> unit,
       addon_cost |-> addon_cost,
       line_total |-> (unit + addon_cost) * qty]

\* Variant of delivery_fee_of that waives the fee at the threshold itself.
delivery_fee_of_inclusive(subtotal) ==
  IF subtotal >= DELIVERY_THRESHOLD THEN 0 ELSE DELIVERY_FEE

\* Line 316.
delivery_fee_of(subtotal) ==
  IF subtotal > DELIVERY_THRESHOLD THEN 0 ELSE DELIVERY_FEE

\* Lines 280-313: the loop over the cart; the first failing line raises and
\* ends the request.
RECURSIVE price_loop(_, _)
price_loop(items, acc) ==
  IF items = <<>> THEN acc
  ELSE
    LET it == Head(items)
        unit == unit_price_of(it)
    IN  IF unit.status # 200
        THEN [acc EXCEPT !.status = unit.status, !.detail = unit.detail]
        ELSE
          LET li == line_item(it, unit.v)
          IN  price_loop(Tail(items),
                [acc EXCEPT
                   !.line_items = Append(@, li),
                   !.subtotal = @ + li.line_total,
                   !.contains_office = @ \/ is_office_line(it)])

NoQuote ==
  [items |-> <<>>, subtotal |-> 0, platform_fee |-> 0, delivery_fee |-> 0,
   total |-> 0, contains_office_visiting_cards |-> FALSE]

\* The handler's outcome: status 200 with the quote, or the raised error.
compute_price(items) ==
  LET r == price_loop(items,
             [status |-> 200, detail |-> "", line_items |-> <<>>,
              subtotal |-> 0, contains_office |-> FALSE])
      platform_fee == PLATFORM_FEE
      delivery_fee == delivery_fee_of(r.subtotal)
  IN  IF r.status # 200
      THEN [status |-> r.status, detail |-> r.detail, body |-> NoQuote]
      ELSE [status |-> 200, detail |-> "",
            body |-> [items |-> r.line_items,
                      subtotal |-> r.subtotal,
                      platform_fee |-> platform_fee,
                      delivery_fee |-> delivery_fee,
                      total |-> r.subtotal + platform_fee + delivery_fee,
                      contains_office_visiting_cards |-> r.contains_office]]

\* ------------------------------------------------------------------------
\* Cart items accepted by the CartItem schema (src/schemas.py:109-123)
\* ------------------------------------------------------------------------
NoOpts ==
  [color |-> None, size |-> None, gsm |-> Absent, pages |-> Absent,
   paper |-> None, quantity |-> Absent, type |-> None, card_type |-> None]

AddOnsValues ==
  {NoAddOns} \cup
  {AddOns(s, l) : s \in {None, "up_to_80", "81_150"},
                  l \in {None, "ID", "A4", "A3"}}

\* unit_price / line_total as sent by the client: null or a number.
ClientPrices == {Null, Num(1)}

CartItem(product, options, addons, quantity, unit_price, line_total) ==
  [product |-> product, options |-> options, addons |-> addons,
   quantity |-> quantity, unit_price |-> unit_price,
   line_total |-> line_total]

\* A line as a client that sends no add-ons and no prices would send it.
Plain(product, options, quantity) ==
  CartItem(product, options, NoAddOns, quantity, Null, Null)

DocOpts ==
  {[NoOpts EXCEPT !.color = c, !.size = s, !.gsm = g, !.pages = p] :
     c \in {"bw", "colour", None}, s \in {"A4", "A3", "A5"},
     g \in {Num(80), Num(100), Num(130), Num(170), Str(80), Absent},
     p \in {Absent, Null, Num(1), Num(2), Num(30), Bad}}

CardOpts ==
  {[NoOpts EXCEPT !.paper = p, !.quantity = q, !.card_type = t] :
     p \in {"economy_250_matte", "premium_300_matte", "premium_300_gloss",
            None},
     q \in {Num(50), Num(100), Num(75), Str(50), Absent},
     t \in {"office", "personal", None}}

LetterheadOpts ==
  {[NoOpts EXCEPT !.gsm = g, !.quantity = q] :
     g \in {Num(100), Num(130), Num(80), Absent},
     q \in {Num(100), Num(200), Num(150), Absent}}

EnvelopeOpts ==
  {[NoOpts EXCEPT !.type = t, !.quantity = q] :
     t \in {"standard_80", "premium_100", None},
     q \in {Num(100), Num(200), Num(150), Absent}}

FlyerOpts ==
  {[NoOpts EXCEPT !.size = s, !.quantity = q] :
     s \in {"A5", "A4", "A3"},
     q \in {Num(50), Num(100), Num(75), Absent}}

PosterOpts ==
  {[NoOpts EXCEPT !.quantity = q] :
     q \in {Num(1), Num(10), Num(5), Absent}}

MugOpts ==
  {[NoOpts EXCEPT !.quantity = q] :
     q \in {Num(1), Num(2), Num(4), Num(3), Bad, Absent}}

OptionsOf(product) ==
  CASE product = "document_printing" -> DocOpts
    [] product = "visiting_cards" -> CardOpts
    [] product = "letterheads" -> LetterheadOpts
    [] product = "envelopes" -> EnvelopeOpts
    [] product = "flyers" -> FlyerOpts
    [] product = "posters" -> PosterOpts
    [] product = "custom_mug" -> MugOpts

\* CartItem.quantity is any int (default 1).
Quantities == {-1, 0, 1, 2}

\* ------------------------------------------------------------------------
\* State
\* ------------------------------------------------------------------------
VARIABLES
  user,      \* db.user: the documents in insertion order
  session,   \* db.session: the set of session documents
  order,     \* db.order: the documents in insertion order
  nextId,    \* the next ObjectId the store generates
  pc,        \* pc[w]: where checkout request w stands in place_order
  loc,       \* loc[w]: the local variables of checkout request w
  resp       \* the response most recently sent by a handler (op "request":
             \* a preview request received and not yet answered)

vars == <<user, session, order, nextId, pc, loc, resp>>

Workers == 1 .. MaxWorkers

\* ------------------------------------------------------------------------
\* Helpers (src/main.py:31-56)
\* ------------------------------------------------------------------------
\* sha256 hex digest, taken as injective.
hash_password(password) == <<"sha256", password>>

\* secrets.token_hex(24): a token no stored session carries.  Tokens are
\* numbered; 0 stands for an absent (None or empty) token.
generate_token == Cardinality(session) + 1

\* ObjectId(value), or None (0) when value is not a well-formed id.  Ids are
\* the positive integers.
to_object_id(value) == IF value >= 1 THEN value ELSE 0

NoUser ==
  [_id |-> 0, full_name |-> None, mobile |-> None, email |-> None,
   password_hash |-> <<"sha256", None>>]

\* Variant of auth_user that accepts a session whose user is gone.
auth_user_session_only(token) ==
  IF token = 0
  THEN [status |-> 401, detail |-> "Not authenticated", user |-> NoUser]
  ELSE IF ~\E s \in session : s.token = token
  THEN [status |-> 401, detail |-> "Invalid session", user |-> NoUser]
  ELSE
    LET sess == CHOOSE s \in session : s.token = token
        oid == to_object_id(sess.user_id)
        found == {i \in 1 .. Len(user) : oid # 0 /\ user[i]._id = oid}
    IN  [status |-> 200, detail |-> "",
         user |-> IF found = {} THEN [NoUser EXCEPT !._id = sess.user_id]
                  ELSE user[CHOOSE i \in found : \A j \in found : i <= j]]

\* The outcome of auth_user: the user, or the 401 it raises.
auth_user(token) ==
  IF token = 0
  THEN [status |-> 401, detail |-> "Not authenticated", user |-> NoUser]
  ELSE IF ~\E s \in session : s.token = token
  THEN [status |-> 401, detail |-> "Invalid session", user |-> NoUser]
  ELSE
    LET sess == CHOOSE s \in session : s.token = token
        oid == to_object_id(sess.user_id)
        found == {i \in 1 .. Len(user) : oid # 0 /\ user[i]._id = oid}
    IN  IF found = {}
        THEN [status |-> 401, detail |-> "User not found", user |-> NoUser]
        ELSE [status |-> 200, detail |-> "",
              user |-> user[CHOOSE i \in found : \A j \in found : i <= j]]

\* ------------------------------------------------------------------------
\* Document store (database module: create_document, db.<collection>)
\* ------------------------------------------------------------------------
\* create_document(collection, data): the record is persisted under a newly
\* generated id, which is returned.
create_document(coll, data) == Append(coll, [data EXCEPT !._id = nextId])

\* ------------------------------------------------------------------------
\* Responses
\* ------------------------------------------------------------------------
NoLink ==
  [set |-> FALSE, admin_number |-> None, order_id |-> 0,
   full_name |-> None, mobile |-> None]

NoAddress == [address_line |-> None, city |-> None, pincode |-> None]

NoPayload ==
  [items |-> <<>>, address |-> NoAddress, payment_method |-> None,
   token |-> 0]

NoReceipt ==
  [order_id |-> 0, total |-> 0, status |-> None, whatsapp_link |-> NoLink,
   message |-> None]

NoOrder ==
  [_id |-> 0, user_id |-> 0, items |-> <<>>,
   pricing_breakdown |-> [items |-> <<>>, subtotal |-> 0,
                          platform_fee |-> 0, delivery_fee |-> 0],
   total |-> 0, status |-> None, address |-> NoAddress,
   contains_office_visiting_cards |-> FALSE, whatsapp_link |-> NoLink]

\* op: the handler; token, arg, items: its inputs; status, detail: the HTTP
\* outcome; issued / quote / receipt / doc / docs: the body, by handler.
Response(op, token, arg, status, detail) ==
  [op |-> op, token |-> token, arg |-> arg, items |-> <<>>,
   status |-> status, detail |-> detail, issued |-> 0,
   quote |-> NoQuote, receipt |-> NoReceipt, doc |-> NoOrder, docs |-> <<>>]

NoLoc ==
  [payload |-> NoPayload, user |-> NoUser, pricing |-> NoQuote,
   order_id |-> 0, whatsapp_link |-> NoLink]

\* ------------------------------------------------------------------------
\* Requests the clients send
\* ------------------------------------------------------------------------
RegisterPayloads ==
  {[full_name |-> "Asha", mobile |-> "9000000001", email |-> "asha@x.in",
    password |-> "pw-a", address_line |-> "1 Main Rd", city |-> "Pune",
    pincode |-> "411001"],
   [full_name |-> "Ravi", mobile |-> "9000000002", email |-> "ravi@x.in",
    password |-> "pw-r", address_line |-> "2 Hill Rd", city |-> "Pune",
    pincode |-> "411002"]}

LoginPayloads ==
  {[identifier |-> "asha@x.in", password |-> "pw-a"],
   [identifier |-> "9000000002", password |-> "pw-r"],
   [identifier |-> "asha@x.in", password |-> "pw-r"]}

\* Tokens a client may present: absent (0), never issued (-1), or any token
\* the server may issue.
TokenInputs == {-1, 0} \cup (1 .. MaxSessions)

\* Order ids a client may ask for: malformed (0) or any well-formed id.
OrderIdInputs == 0 .. (MaxUsers + MaxOrders + 2)

OfficeCard ==
  [NoOpts EXCEPT !.paper = "premium_300_gloss", !.quantity = Num(100),
                 !.card_type = "office"]
PersonalCard ==
  [NoOpts EXCEPT !.paper = "economy_250_matte", !.quantity = Num(50),
                 !.card_type = "personal"]
Mug(q) == [NoOpts EXCEPT !.quantity = Num(q)]

\* Carts sent to checkout and to the preview in the full system: one with an
\* office card, one without (and with client-sent prices), one invalid.
CheckoutCarts ==
  {<<CartItem("visiting_cards", OfficeCard, AddOns(None, "ID"), 2,
              Null, Null)>>,
   <<CartItem("custom_mug", Mug(1), NoAddOns, 1, Num(1), Num(1)),
     Plain("visiting_cards", PersonalCard, 1)>>,
   <<Plain("custom_mug", Mug(3), 1)>>}

Addresses ==
  {[address_line |-> "1 Main Rd", city |-> "Pune", pincode |-> "411001"]}

CheckoutPayloads ==
  {[items |-> c, address |-> a, payment_method |-> "cod", token |-> t] :
     c \in CheckoutCarts, a \in Addresses, t \in TokenInputs}

\* ------------------------------------------------------------------------
\* Initial state
\* ------------------------------------------------------------------------
\* The store outlives the process.  It starts with no users and no orders,
\* and with one session left over from a user (id 1) whose record is gone.
Init ==
  /\ user = <<>>
  /\ session = {[user_id |-> 1, token |-> 1, expires_at |-> 0]}
  /\ order = <<>>
  /\ nextId = 2
  /\ pc = [w \in Workers |-> "idle"]
  /\ loc = [w \in Workers |-> NoLoc]
  /\ resp = Response("none", 0, 0, 0, "")

\* ------------------------------------------------------------------------
\* Auth routes (src/main.py:71-122)
\* ------------------------------------------------------------------------
register(payload) ==
  IF \E i \in 1 .. Len(user) :
       user[i].email = payload.email \/ user[i].mobile = payload.mobile
  THEN /\ resp' = Response("register", 0, 0, 400, "Account already exists")
       /\ UNCHANGED <<user, session, order, nextId, pc, loc>>
  ELSE /\ Len(user) < MaxUsers
       /\ Cardinality(session) < MaxSessions
       /\ user' = create_document(user,
                    [_id |-> 0,
                     full_name |-> payload.full_name,
                     mobile |-> payload.mobile,
                     email |-> payload.email,
                     password_hash |-> hash_password(payload.password)])
       /\ nextId' = nextId + 1
       /\ session' = session \cup
                       {[user_id |-> nextId, token |-> generate_token,
                         expires_at |-> 0]}
       /\ resp' = [Response("register", 0, 0, 200, "")
                     EXCEPT !.issued = generate_token]
       /\ UNCHANGED <<order, pc, loc>>

login(payload) ==
  LET hashed == hash_password(payload.password)
      found == {i \in 1 .. Len(user) :
                  /\ user[i].password_hash = hashed
                  /\ \/ user[i].email = payload.identifier
                     \/ user[i].mobile = payload.identifier}
  IN  IF found = {}
      THEN /\ resp' = Response("login", 0, 0, 401, "Invalid credentials")
           /\ UNCHANGED <<user, session, order, nextId, pc, loc>>
      ELSE /\ Cardinality(session) < MaxSessions
           /\ LET u == user[CHOOSE i \in found : \A j \in found : i <= j]
              IN  session' = session \cup
                               {[user_id |-> u._id, token |-> generate_token,
                                 expires_at |-> 0]}
           /\ resp' = [Response("login", 0, 0, 200, "")
                         EXCEPT !.issued = generate_token]
           /\ UNCHANGED <<user, order, nextId, pc, loc>>

\* ------------------------------------------------------------------------
\* Preview endpoint (src/main.py:275-326)
\* ------------------------------------------------------------------------
PriceRequest(items) ==
  LET r == compute_price(items)
  IN  /\ resp' = [Response("compute_price", 0, 0, r.status, r.detail)
                    EXCEPT !.items = items, !.quote = r.body]
      /\ UNCHANGED <<user, session, order, nextId, pc, loc>>

\* ------------------------------------------------------------------------
\* Checkout (src/main.py:338-372), one step per store operation
\* ------------------------------------------------------------------------
\* Lines 340-341: authenticate, then price the cart; either may raise.
place_order_begin(w, payload) ==
  LET a == auth_user(payload.token)
      pricing == compute_price(payload.items)
      failed(status, detail) ==
        /\ resp' = [Response("place_order", payload.token, 0, status, detail)
                      EXCEPT !.items = payload.items]
        /\ UNCHANGED <<user, session, order, nextId, pc, loc>>
  IN  /\ pc[w] = "idle"
      /\ IF a.status # 200 THEN failed(a.status, a.detail)
         ELSE IF pricing.status # 200
              THEN failed(pricing.status, pricing.detail)
         ELSE /\ Len(order) + Cardinality({v \in Workers : pc[v] = "insert"})
                   < MaxOrders
              /\ pc' = [pc EXCEPT ![w] = "insert"]
              /\ loc' = [loc EXCEPT ![w] =
                           [NoLoc EXCEPT !.payload = payload,
                                         !.user = a.user,
                                         !.pricing = pricing.body]]
              /\ UNCHANGED <<user, session, order, nextId, resp>>

\* Lines 366-372: the receipt returned to the client.
receipt(w, order_id, whatsapp_link) ==
  LET pricing == loc[w].pricing
  IN  [Response("place_order", loc[w].payload.token, 0, 200, "")
         EXCEPT !.items = loc[w].payload.items,
                !.receipt =
                  [order_id |-> order_id,
                   total |-> pricing.total,
                   status |-> "Order placed",
                   whatsapp_link |-> whatsapp_link,
                   message |->
                     IF pricing.contains_office_visiting_cards
                     THEN "We'll confirm your office visiting card design with you on WhatsApp before printing."
                     ELSE None]]

\* Lines 343-357 (and 359-360, 366-372 when no link is due): build the Order
\* and insert it.
place_order_insert(w) ==
  LET l == loc[w]
      pricing == l.pricing
      order_model ==
        [_id |-> 0,
         user_id |-> l.user._id,
         items |-> l.payload.items,
         pricing_breakdown |->
           [items |-> pricing.items,
            subtotal |-> pricing.subtotal,
            platform_fee |-> pricing.platform_fee,
            delivery_fee |-> pricing.delivery_fee],
         total |-> pricing.total,
         status |-> "Placed",
         address |-> l.payload.address,
         contains_office_visiting_cards |->
           pricing.contains_office_visiting_cards,
         whatsapp_link |-> NoLink]
      order_id == nextId
  IN  /\ pc[w] = "insert"
      /\ order' = create_document(order, order_model)
      /\ nextId' = nextId + 1
      /\ IF pricing.contains_office_visiting_cards
         THEN /\ pc' = [pc EXCEPT ![w] = "attach"]
              /\ loc' = [loc EXCEPT ![w].order_id = order_id]
              /\ UNCHANGED resp
         ELSE /\ pc' = [pc EXCEPT ![w] = "idle"]
              /\ loc' = [loc EXCEPT ![w] = NoLoc]
              /\ resp' = receipt(w, order_id, NoLink)
      /\ UNCHANGED <<user, session>>

\* Lines 361-363: the deep link, by its parts.
build_link(order_id, u) ==
  [set |-> TRUE, admin_number |-> "911234567890", order_id |-> order_id,
   full_name |-> u.full_name, mobile |-> u.mobile]

\* Variant of update_link whose filter matches every order.
update_link_all(coll, id, link) ==
  [i \in 1 .. Len(coll) |-> [coll[i] EXCEPT !.whatsapp_link = link]]

\* Line 364: db.order.update_one({"_id": id}, {"$set": {"whatsapp_link": ..}}).
update_link(coll, id, link) ==
  [i \in 1 .. Len(coll) |->
     IF id # 0 /\ coll[i]._id = id
     THEN [coll[i] EXCEPT !.whatsapp_link = link]
     ELSE coll[i]]

\* Variant of place_order_attach that answers with the link without storing it.
place_order_attach_unsaved(w) ==
  LET l == loc[w]
      pricing == l.pricing
      link == [set |-> TRUE, admin_number |-> "911234567890",
               order_id |-> l.order_id, full_name |-> l.user.full_name,
               mobile |-> l.user.mobile]
  IN  /\ pc[w] = "attach"
      /\ pc' = [pc EXCEPT ![w] = "idle"]
      /\ loc' = [loc EXCEPT ![w] = NoLoc]
      /\ resp' = [Response("place_order", l.payload.token, 0, 200, "")
                    EXCEPT !.items = l.payload.items,
                           !.receipt =
                             [order_id |-> l.order_id,
                              total |-> pricing.total,
                              status |-> "Order placed",
                              whatsapp_link |-> link,
                              message |->
                                "We'll confirm your office visiting card design with you on WhatsApp before printing."]]
      /\ UNCHANGED <<user, session, order, nextId>>

\* Lines 360-372: attach the link to the order just created and answer.
place_order_attach(w) ==
  LET l == loc[w]
      whatsapp_link == build_link(l.order_id, l.user)
  IN  /\ pc[w] = "attach"
      /\ order' = update_link(order, to_object_id(l.order_id), whatsapp_link)
      /\ pc' = [pc EXCEPT ![w] = "idle"]
      /\ loc' = [loc EXCEPT ![w] = NoLoc]
      /\ resp' = receipt(w, l.order_id, whatsapp_link)
      /\ UNCHANGED <<user, session, nextId>>

\* ------------------------------------------------------------------------
\* Order reads (src/main.py:375-391)
\* ------------------------------------------------------------------------
RECURSIVE Reverse(_)
Reverse(s) == IF s = <<>> THEN <<>> ELSE Append(Reverse(Tail(s)), Head(s))

list_orders(token) ==
  LET a == auth_user(token)
      owned(d) == d.user_id = a.user._id
  IN  /\ resp' =
           IF a.status # 200
           THEN Response("list_orders", token, 0, a.status, a.detail)
           ELSE [Response("list_orders", token, 0, 200, "")
                   EXCEPT !.docs = Reverse(SelectSeq(order, owned))]
      /\ UNCHANGED <<user, session, order, nextId, pc, loc>>

\* Variant of get_order whose query leaves out the user_id filter.
get_order_any_owner(order_id, token) ==
  LET a == auth_user(token)
      oid == to_object_id(order_id)
      found == {i \in 1 .. Len(order) : oid # 0 /\ order[i]._id = oid}
  IN  /\ resp' =
           IF a.status # 200
           THEN Response("get_order", token, order_id, a.status, a.detail)
           ELSE IF found = {}
           THEN Response("get_order", token, order_id, 404,
                         "Order not found")
           ELSE [Response("get_order", token, order_id, 200, "")
                   EXCEPT !.doc = order[CHOOSE i \in found :
                                          \A j \in found : i <= j]]
      /\ UNCHANGED <<user, session, order, nextId, pc, loc>>

get_order(order_id, token) ==
  LET a == auth_user(token)
      oid == to_object_id(order_id)
      found == {i \in 1 .. Len(order) :
                  /\ oid # 0
                  /\ order[i]._id = oid
                  /\ order[i].user_id = a.user._id}
  IN  /\ resp' =
           IF a.status # 200
           THEN Response("get_order", token, order_id, a.status, a.detail)
           ELSE IF found = {}
           THEN Response("get_order", token, order_id, 404,
                         "Order not found")
           ELSE [Response("get_order", token, order_id, 200, "")
                   EXCEPT !.doc = order[CHOOSE i \in found :
                                          \A j \in found : i <= j]]
      /\ UNCHANGED <<user, session, order, nextId, pc, loc>>

\* ------------------------------------------------------------------------
\* Specifications
\* ------------------------------------------------------------------------
Next ==
  \/ \E payload \in RegisterPayloads : register(payload)
  \/ \E payload \in LoginPayloads : login(payload)
  \/ \E items \in CheckoutCarts : PriceRequest(items)
  \/ \E w \in Workers, payload \in CheckoutPayloads :
       place_order_begin(w, payload)
  \/ \E w \in Workers : place_order_insert(w)
  \/ \E w \in Workers : place_order_attach(w)
  \/ \E token \in TokenInputs : list_orders(token)
  \/ \E order_id \in OrderIdInputs, token \in TokenInputs :
       get_order(order_id, token)

Spec == Init /\ [][Next]_vars

\* The pricing engine alone: the preview endpoint on every single-line cart
\* and on the multi-line carts over CoreItems.
CoreItems ==
  {Plain("custom_mug", Mug(1), 1),
   CartItem("letterheads",
            [NoOpts EXCEPT !.gsm = Num(130), !.quantity = Num(100)],
            AddOns("up_to_80", "A4"), 1, Null, Null),
   Plain("visiting_cards", OfficeCard, 1),
   Plain("visiting_cards", PersonalCard, 1),
   Plain("document_printing",
         [NoOpts EXCEPT !.color = "bw", !.size = "A4", !.gsm = Num(80),
                        !.pages = Num(1)], 1),
   Plain("custom_mug", Mug(3), 1)}

RECURSIVE SeqsUpTo(_, _)
SeqsUpTo(S, n) ==
  IF n = 0 THEN {<<>>}
  ELSE LET shorter == SeqsUpTo(S, n - 1)
       IN  shorter \cup {Append(s, x) : s \in shorter, x \in S}

\* The request waiting to be priced: a single line over every option set,
\* add-on selection, quantity and client-sent price, or a cart of up to
\* MaxLines lines over CoreItems.
InitPrice ==
  /\ user = <<>>
  /\ session = {[user_id |-> 1, token |-> 1, expires_at |-> 0]}
  /\ order = <<>>
  /\ nextId = 2
  /\ pc = [w \in Workers |-> "idle"]
  /\ loc = [w \in Workers |-> NoLoc]
  /\ \/ \E p \in Products :
          \E o \in OptionsOf(p), a \in AddOnsValues, q \in Quantities,
             up \in ClientPrices, lt \in ClientPrices :
            resp = [Response("request", 0, 0, 0, "")
                      EXCEPT !.items = <<CartItem(p, o, a, q, up, lt)>>]
     \/ \E items \in SeqsUpTo(CoreItems, MaxLines) :
          resp = [Response("request", 0, 0, 0, "") EXCEPT !.items = items]

NextPrice == resp.op = "request" /\ PriceRequest(resp.items)

SpecPrice == InitPrice /\ [][NextPrice]_vars

\* ------------------------------------------------------------------------
\* The pricing tables as the specification lists them (section 4.1)
\* ------------------------------------------------------------------------
IsInt(x) == x.t \in {"int", "str"}

\* The line's option combination is an entry of its product's table.
InTable(it) ==
  LET o == it.options
      qty_in(S) == IsInt(o.quantity) /\ o.quantity.v \in S
  IN  CASE it.product = "document_printing" ->
             /\ o.color \in {"bw", "colour"}
             /\ o.size \in {"A4", "A3"}
             /\ IsInt(o.gsm) /\ o.gsm.v \in {80, 100, 130}
             /\ IsInt(o.pages)
        [] it.product = "visiting_cards" ->
             /\ o.paper \in {"economy_250_matte", "premium_300_matte",
                             "premium_300_gloss"}
             /\ qty_in({50, 100})
        [] it.product = "letterheads" ->
             IsInt(o.gsm) /\ o.gsm.v \in {100, 130} /\ qty_in({100, 200})
        [] it.product = "envelopes" ->
             o.type \in {"standard_80", "premium_100"} /\ qty_in({100, 200})
        [] it.product = "flyers" ->
             o.size \in {"A5", "A4"} /\ qty_in({50, 100})
        [] it.product = "posters" -> qty_in({1, 10})
        [] it.product = "custom_mug" -> qty_in({1, 2, 4})
        [] OTHER -> FALSE

\* The posters fallback: any quantity other than 1 is priced at 700.
PostersFallback(it) == it.product = "posters" /\ IsInt(it.options.quantity)

ListedPerPage ==
  <<<<"bw", "A4", 80, 3>>, <<"bw", "A4", 100, 4>>, <<"bw", "A4", 130, 5>>,
    <<"bw", "A3", 80, 8>>, <<"bw", "A3", 100, 10>>, <<"bw", "A3", 130, 12>>,
    <<"colour", "A4", 80, 10>>, <<"colour", "A4", 100, 12>>,
    <<"colour", "A4", 130, 15>>, <<"colour", "A3", 80, 25>>,
    <<"colour", "A3", 100, 30>>, <<"colour", "A3", 130, 35>>>>

\* The listed unit price of a line whose options are in the table.
ListedPrice(it) ==
  LET o == it.options
      low == o.quantity.v \in {1, 50} \/
             (it.product \in {"letterheads", "envelopes"}
                /\ o.quantity.v = 100)
      pair(a, b) == IF low THEN a ELSE b
  IN  CASE it.product = "document_printing" ->
             LET k == CHOOSE k \in 1 .. Len(ListedPerPage) :
                        /\ ListedPerPage[k][1] = o.color
                        /\ ListedPerPage[k][2] = o.size
                        /\ ListedPerPage[k][3] = o.gsm.v
             IN  ListedPerPage[k][4] * o.pages.v
        [] it.product = "visiting_cards" ->
             IF o.paper = "economy_250_matte" THEN pair(150, 250)
             ELSE pair(250, 400)
        [] it.product = "letterheads" ->
             IF o.gsm.v = 100 THEN pair(200, 350) ELSE pair(260, 450)
        [] it.product = "envelopes" ->
             IF o.type = "standard_80" THEN pair(200, 350)
             ELSE pair(260, 450)
        [] it.product = "flyers" ->
             IF o.size = "A5" THEN pair(250, 400) ELSE pair(350, 600)
        [] it.product = "posters" -> pair(80, 700)
        [] it.product = "custom_mug" ->
             IF o.quantity.v = 1 THEN 299
             ELSE IF o.quantity.v = 2 THEN 550 ELSE 1040

NoAddOnsSent(it) == it.addons \in {NoAddOns, AddOns(None, None)}

Priced == resp.op = "compute_price"
Quoted == Priced /\ resp.status = 200

\* ------------------------------------------------------------------------
\* C1.  Every cart with a line whose option combination is not an entry of
\* its product's table (the posters fallback excepted) is refused by
\* compute_price with a 400 validation error and no quote.
\* ------------------------------------------------------------------------
C1_InvalidOptionsRejected ==
  (Priced /\ \E i \in 1 .. Len(resp.items) :
               ~InTable(resp.items[i]) /\ ~PostersFallback(resp.items[i]))
    => (resp.status = 400 /\ resp.quote = NoQuote)

\* ------------------------------------------------------------------------
\* C2.  On a single-line cart without add-ons whose options are in the
\* table, compute_price answers with the listed unit price; and every line of
\* every quote has line_total = (unit_price + addon_cost) * quantity.
\* ------------------------------------------------------------------------
C2_ListedUnitPrice ==
  /\ (Priced /\ Len(resp.items) = 1 /\ InTable(resp.items[1])
        /\ NoAddOnsSent(resp.items[1]))
       => /\ resp.status = 200
          /\ Len(resp.quote.items) = 1
          /\ resp.quote.items[1].unit_price = ListedPrice(resp.items[1])
          /\ resp.quote.items[1].addon_cost = 0
          /\ resp.quote.items[1].quantity = resp.items[1].quantity
  /\ Quoted =>
       \A i \in 1 .. Len(resp.quote.items) :
         LET li == resp.quote.items[i]
         IN  li.line_total = (li.unit_price + li.addon_cost) * li.quantity

C2_Witness ==
  /\ Quoted
  /\ Len(resp.items) = 1
  /\ resp.items[1].product = "document_printing"
  /\ resp.items[1].options.color = "colour"
  /\ resp.items[1].options.size = "A3"
  /\ resp.items[1].options.gsm = Num(130)
  /\ resp.items[1].options.pages = Num(30)
  /\ NoAddOnsSent(resp.items[1])
  /\ resp.items[1].quantity = 2
  /\ resp.quote.items[1].unit_price = 1050
  /\ resp.quote.items[1].line_total = 2100

\* ------------------------------------------------------------------------
\* C6.  In every quote delivery_fee is 0 when subtotal > 300 and 35
\* otherwise (35 at exactly 300 and for the empty cart), platform_fee is 10
\* and total = subtotal + platform_fee + delivery_fee.
\* ------------------------------------------------------------------------
C6_Fees ==
  Quoted =>
    LET q == resp.quote
    IN  /\ q.platform_fee = 10
        /\ q.subtotal > 300 => q.delivery_fee = 0
        /\ q.subtotal <= 300 => q.delivery_fee = 35
        /\ resp.items = <<>> => (q.subtotal = 0 /\ q.delivery_fee = 35)
        /\ q.total = q.subtotal + q.platform_fee + q.delivery_fee

C6_Witness ==
  /\ Quoted
  /\ Len(resp.items) = 2
  /\ resp.quote.subtotal = 300
  /\ resp.quote.delivery_fee = 35
  /\ resp.quote.total = 345

LaminationSurcharge(l) ==
  CASE l = "ID" -> 15 [] l = "A4" -> 40 [] l = "A3" -> 60 [] OTHER -> 0

SpiralSurcharge(s) ==
  CASE s = "up_to_80" -> 30 [] s = "81_150" -> 40 [] OTHER -> 0

\* ------------------------------------------------------------------------
\* C7.  The add-on cost of a line is the lamination surcharge (ID 15, A4 40,
\* A3 60) plus, for document_printing only, the spiral binding surcharge
\* (up_to_80 30, 81_150 40); a spiral binding on another product adds 0 and
\* raises no error; no add-ons gives 0.
\* ------------------------------------------------------------------------
C7_AddOnCost ==
  /\ (Quoted /\ Len(resp.items) = 1) =>
       LET it == resp.items[1]
           cost == resp.quote.items[1].addon_cost
       IN  /\ ~it.addons.given => cost = 0
           /\ it.addons.given =>
                cost = LaminationSurcharge(it.addons.lamination)
                       + (IF it.product = "document_printing"
                          THEN SpiralSurcharge(it.addons.spiral_binding)
                          ELSE 0)
  /\ (Priced /\ Len(resp.items) = 1 /\ InTable(resp.items[1]))
       => resp.status = 200

C7_Witness ==
  /\ Quoted
  /\ Len(resp.items) = 1
  /\ resp.items[1].product = "flyers"
  /\ resp.items[1].addons = AddOns("81_150", "A3")
  /\ resp.quote.items[1].addon_cost = 60

\* ------------------------------------------------------------------------
\* C9.  Every line of every quote has a quantity >= 1, so line totals and
\* the subtotal are non-negative and total >= platform_fee.
\* ------------------------------------------------------------------------
C9_PositiveQuantity ==
  Quoted =>
    /\ \A i \in 1 .. Len(resp.quote.items) :
         /\ resp.quote.items[i].quantity >= 1
         /\ resp.quote.items[i].line_total >= 0
    /\ resp.quote.subtotal >= 0
    /\ resp.quote.total >= resp.quote.platform_fee

\* ------------------------------------------------------------------------
\* Ownership, as the stores record it
\* ------------------------------------------------------------------------
\* The ids of the users a token authenticates: the user_id of a stored
\* session with that token, when a user with that id is stored.
CallerIds(token) ==
  {s.user_id : s \in {x \in session : token # 0 /\ x.token = token}}
    \cap {user[i]._id : i \in 1 .. Len(user)}

OrderIds == {order[i]._id : i \in 1 .. Len(order)}

\* ------------------------------------------------------------------------
\* C3.  get_order and list_orders return only orders whose user_id is the
\* user the token authenticates; get_order on another user's order answers
\* 404 exactly as for an order id that does not exist.
\* ------------------------------------------------------------------------
C3_OwnOrdersOnly ==
  /\ (resp.op = "get_order" /\ resp.status = 200) =>
       /\ resp.doc.user_id \in CallerIds(resp.token)
       /\ resp.doc._id = resp.arg
  /\ (resp.op = "list_orders" /\ resp.status = 200) =>
       \A i \in 1 .. Len(resp.docs) :
         resp.docs[i].user_id \in CallerIds(resp.token)
  /\ (resp.op = "get_order" /\ CallerIds(resp.token) # {}) =>
       \A i \in 1 .. Len(order) :
         (order[i]._id = resp.arg
            /\ order[i].user_id \notin CallerIds(resp.token))
           => resp = Response("get_order", resp.token, resp.arg, 404,
                              "Order not found")
  /\ (resp.op = "get_order" /\ CallerIds(resp.token) # {}
        /\ resp.arg \notin OrderIds)
       => resp = Response("get_order", resp.token, resp.arg, 404,
                          "Order not found")

\* Another user's order was asked for and refused.  The order carries no
\* office flag, so its insert answered its own checkout: the refusal came
\* after the order existed.
C3_Witness ==
  /\ resp.op = "get_order"
  /\ resp.status = 404
  /\ CallerIds(resp.token) # {}
  /\ \E i \in 1 .. Len(order) :
       /\ order[i]._id = resp.arg
       /\ ~order[i].contains_office_visiting_cards
       /\ order[i].user_id \notin CallerIds(resp.token)

\* ------------------------------------------------------------------------
\* C4.  A checkout whose token is absent, unknown, or of a session whose user
\* is gone answers 401 whatever the cart, and leaves the user, session and
\* order stores (and every checkout in flight) as they were.
\* ------------------------------------------------------------------------
C4_UnauthenticatedCheckout ==
  [][(resp' # resp /\ resp'.op = "place_order"
        /\ CallerIds(resp'.token) = {})
       => /\ resp'.status = 401
          /\ resp'.receipt = NoReceipt
          /\ UNCHANGED <<user, session, order, nextId, pc, loc>>]_vars

\* The session's user is gone and the cart is one pricing would refuse.
C4_Witness ==
  /\ resp.op = "place_order"
  /\ resp.status = 401
  /\ resp.detail = "User not found"
  /\ resp.items = <<Plain("custom_mug", Mug(3), 1)>>
  /\ Len(user) > 0

HasOfficeCard(items) ==
  \E i \in 1 .. Len(items) :
    items[i].product = "visiting_cards"
      /\ items[i].options.card_type = "office"

\* ------------------------------------------------------------------------
\* C5.  A successful checkout of a cart with an office visiting card answers
\* with a link that carries the new order's id and the user's mobile number,
\* and that link is the one stored on that order; without such a line the
\* link and the message are null and the stored link stays null.  The
\* quote's flag says which of the two it is.
\* ------------------------------------------------------------------------
C5_OfficeCardLink ==
  /\ Quoted =>
       resp.quote.contains_office_visiting_cards = HasOfficeCard(resp.items)
  /\ (resp.op = "place_order" /\ resp.status = 200) =>
       \E i \in 1 .. Len(order) :
         LET o == order[i]
             link == resp.receipt.whatsapp_link
         IN  /\ o._id = resp.receipt.order_id
             /\ o.user_id \in CallerIds(resp.token)
             /\ o.contains_office_visiting_cards = HasOfficeCard(resp.items)
             /\ o.whatsapp_link = link
             /\ HasOfficeCard(resp.items) =>
                  /\ link.set
                  /\ link.order_id = o._id
                  /\ \E k \in 1 .. Len(user) :
                       user[k]._id = o.user_id /\ link.mobile = user[k].mobile
                  /\ resp.receipt.message # None
             /\ ~HasOfficeCard(resp.items) =>
                  link = NoLink /\ resp.receipt.message = None

C5_Witness ==
  /\ resp.op = "place_order"
  /\ resp.status = 200
  /\ resp.receipt.whatsapp_link.set
  /\ resp.receipt.whatsapp_link.mobile = "9000000002"
  /\ \E i \in 1 .. Len(order) :
       ~order[i].contains_office_visiting_cards
         /\ order[i].whatsapp_link = NoLink

WithoutClientPrices(items) ==
  [i \in 1 .. Len(items) |->
     [items[i] EXCEPT !.unit_price = Null, !.line_total = Null]]

\* ------------------------------------------------------------------------
\* C8.  The unit_price and line_total a client sends change nothing: the
\* preview answers as for the same cart with both fields null, every stored
\* order carries the pricing_breakdown and total of that cart, and the
\* receipt's total is the stored total.
\* ------------------------------------------------------------------------
C8_ClientPricesIgnored ==
  /\ Priced =>
       LET r == compute_price(WithoutClientPrices(resp.items))
       IN  /\ resp.status = r.status
           /\ resp.detail = r.detail
           /\ resp.quote = r.body
  /\ \A i \in 1 .. Len(order) :
       LET q == compute_price(WithoutClientPrices(order[i].items)).body
       IN  /\ order[i].total = q.total
           /\ order[i].pricing_breakdown =
                [items |-> q.items, subtotal |-> q.subtotal,
                 platform_fee |-> q.platform_fee,
                 delivery_fee |-> q.delivery_fee]
  /\ (resp.op = "place_order" /\ resp.status = 200) =>
       /\ resp.receipt.total =
            compute_price(WithoutClientPrices(resp.items)).body.total
       /\ \E i \in 1 .. Len(order) :
            order[i]._id = resp.receipt.order_id
              /\ order[i].total = resp.receipt.total

C8_Witness ==
  /\ resp.op = "place_order"
  /\ resp.status = 200
  /\ resp.receipt.total = 459
  /\ \E i \in 1 .. Len(order) :
       /\ order[i]._id = resp.receipt.order_id
       /\ order[i].items[1].unit_price = Num(1)
       /\ order[i].items[1].line_total = Num(1)
       /\ order[i].pricing_breakdown.items[1].unit_price = 299
       /\ order[i].total = 459

\* What holds of the order store and the checkouts in flight in every state.
C10_Inv ==
  /\ \A i, j \in 1 .. Len(order) : order[i]._id = order[j]._id => i = j
  /\ \A i \in 1 .. Len(order) :
       /\ order[i].status = "Placed"
       /\ order[i].whatsapp_link.set => order[i].contains_office_visiting_cards
       /\ (order[i].contains_office_visiting_cards
             /\ ~order[i].whatsapp_link.set)
            => \E w \in Workers :
                 pc[w] = "attach" /\ loc[w].order_id = order[i]._id
  /\ \A v, w \in Workers :
       (pc[v] = "attach" /\ pc[w] = "attach"
          /\ loc[v].order_id = loc[w].order_id) => v = w

\* What every step does to the order store.
C10_Step ==
  /\ Len(order') \in {Len(order), Len(order) + 1}
  /\ Len(order') = Len(order) + 1 =>
       LET new == order'[Len(order')]
       IN  /\ new.status = "Placed"
           /\ new.whatsapp_link = NoLink
           /\ new._id \notin OrderIds
  /\ \A i \in 1 .. Len(order) :
       /\ order'[i] =
            [order[i] EXCEPT !.whatsapp_link = order'[i].whatsapp_link]
       /\ order'[i].whatsapp_link # order[i].whatsapp_link =>
            /\ order[i].whatsapp_link = NoLink
            /\ order[i].contains_office_visiting_cards
            /\ \E w \in Workers :
                 /\ pc[w] = "attach"
                 /\ loc[w].order_id = order[i]._id
                 /\ pc'[w] = "idle"
  /\ \A w \in Workers :
       (loc'[w].order_id # loc[w].order_id /\ loc'[w].order_id # 0) =>
         /\ pc[w] = "insert"
         /\ Len(order') = Len(order) + 1
         /\ order'[Len(order')]._id = loc'[w].order_id

\* ------------------------------------------------------------------------
\* C10.  Under every interleaving of checkouts an order is inserted once,
\* with status Placed and no link; afterwards only its whatsapp_link ever
\* changes, at most once, from null, only on a flagged order and only by the
\* checkout that inserted it.  So a linked order is flagged, and a flagged
\* order without a link is one whose checkout stands at the attach step.
\* ------------------------------------------------------------------------
C10_OrderWrittenOnceLinkedOnce == []C10_Inv /\ [][C10_Step]_vars

\* One order has its link, another flagged order still waits for its own.
C10_Witness ==
  \E i, j \in 1 .. Len(order) :
    /\ order[i].whatsapp_link.set
    /\ order[j].contains_office_visiting_cards
    /\ ~order[j].whatsapp_link.set
    /\ order[i].user_id # order[j].user_id

=============================================================================
